---- MODULE Spec2Model ----
(***************************************************************************)
(* DineAI booking back end: the Booking collection (models/Booking),       *)
(* the booking controller (create / list / get / cancel) and the weather   *)
(* controller, as a state machine over the collection, the clock that      *)
(* stamps its records (read by each handler when it runs) and the last     *)
(* HTTP response written; `lookup` holds the weather request under study   *)
(* (query, credential, provider reply, clock) where one is fixed, `tool`   *)
(* the last invocation of a voice-agent tool (tools/booking, tools/weather)*)
(* and `sessions` the create requests that are under way side by side.     *)
(***************************************************************************)
EXTENDS Integers, Sequences, FiniteSets, TLC

VARIABLES store, resp, supplied, lookup, tool, sessions

vars == <<store, resp, supplied, lookup, tool, sessions>>

(***************************************************************************)
(* Bounds of the model.                                                    *)
(***************************************************************************)
NumIds == 2
MaxClock == 1

(***************************************************************************)
(* Request values.  A field of a JSON body or of a query string is absent  *)
(* (<<>>) or present with a value (<<v>>).  Strings the code transforms    *)
(* (customerName) are sequences of characters.                             *)
(***************************************************************************)
Absent == <<>>

Some(v) == <<v>>

\* JavaScript truthiness, by type: undefined, "", 0 are falsy; objects are truthy.
TruthyStr(f) == f # Absent /\ f[1] # ""

TruthyChars(f) == f # Absent /\ Len(f[1]) > 0

TruthyNum(f) == f # Absent /\ f[1] # 0

TruthyObj(f) == f # Absent

MinGuests == 1
MaxGuests == 20

CuisineEnum == {"Italian", "Chinese", "Indian", "Mexican", "Japanese", "Thai", "American", "Other"}

SeatingEnum == {"indoor", "outdoor"}

StatusEnum == {"pending", "confirmed", "cancelled"}

RequiredFields == {"customerName", "numberOfGuests", "bookingDate", "bookingTime", "cuisinePreference"}

DefaultWeatherInfo == [condition |-> "", temperature |-> 0, description |-> ""]

\* The identifiers BK-XXXXXXXX that uuidv4().slice(0, 8).toUpperCase() can yield.
BookingIds == 1..NumIds

\* An identifier a client can send that the generator never yields.
UnknownId == 0

RequestIds == BookingIds \cup {UnknownId}

(***************************************************************************)
(* String.prototype.trim, as the schema's `trim: true` applies it.         *)
(***************************************************************************)
RECURSIVE TrimLeft(_)
TrimLeft(s) == IF s # <<>> /\ Head(s) = " " THEN TrimLeft(Tail(s)) ELSE s

RECURSIVE TrimRight(_)
TrimRight(s) ==
    IF s # <<>> /\ s[Len(s)] = " " THEN TrimRight(SubSeq(s, 1, Len(s) - 1)) ELSE s

Trim(s) == TrimRight(TrimLeft(s))

(***************************************************************************)
(* Dates.  A date string either parses to an instant or yields an Invalid  *)
(* Date; instants count hours, so a calendar day is DayLen instants.       *)
(***************************************************************************)
DayLen == 24

DateString(t) == [valid |-> TRUE, t |-> t]

BadDateString == [valid |-> FALSE, t |-> 0]

\* new Date(str)
NewDate(s) == IF s.valid THEN [valid |-> TRUE, t |-> s.t] ELSE [valid |-> FALSE, t |-> 0]

(***************************************************************************)
(* createBooking: the controller's own check of the body.                  *)
(***************************************************************************)
\* The check without its bookingTime operand.
MissingRequiredButTime(body) ==
    \/ ~TruthyChars(body.customerName)
    \/ ~TruthyNum(body.numberOfGuests)
    \/ ~TruthyObj(body.bookingDate)
    \/ ~TruthyStr(body.cuisinePreference)

MissingRequired(body) ==
    \/ ~TruthyChars(body.customerName)
    \/ ~TruthyNum(body.numberOfGuests)
    \/ ~TruthyObj(body.bookingDate)
    \/ ~TruthyStr(body.bookingTime)
    \/ ~TruthyStr(body.cuisinePreference)

MissingFieldsMessage ==
    "Missing required fields: customerName, numberOfGuests, bookingDate, bookingTime, cuisinePreference"

\* The field names an error message names.
FieldsNamedIn(msg) == IF msg = MissingFieldsMessage THEN RequiredFields ELSE {}

(***************************************************************************)
(* new Booking({...}): the document the controller builds from the body.   *)
(* A required field the body lacks stays undefined (Absent) in it; the     *)
(* body's own status is never read.                                        *)
(***************************************************************************)
\* A document built from the whole body: a status the body carries is taken as is.
NewBookingFromBody(body, bookingId) ==
    [bookingId         |-> bookingId,
     customerName      |-> body.customerName,
     numberOfGuests    |-> body.numberOfGuests,
     bookingDate       |-> IF body.bookingDate = Absent THEN Absent
                           ELSE Some(NewDate(body.bookingDate[1])),
     bookingTime       |-> body.bookingTime,
     cuisinePreference |-> body.cuisinePreference,
     specialRequests   |-> IF TruthyStr(body.specialRequests) THEN body.specialRequests[1] ELSE "",
     weatherInfo       |-> IF TruthyObj(body.weatherInfo) THEN body.weatherInfo[1] ELSE DefaultWeatherInfo,
     seatingPreference |-> IF TruthyStr(body.seatingPreference) THEN body.seatingPreference[1] ELSE "indoor",
     status            |-> IF TruthyStr(body.status) THEN body.status[1] ELSE "confirmed"]

\* A document that awaits confirmation.
NewBookingPending(body, bookingId) ==
    [NewBookingFromBody(body, bookingId) EXCEPT !.status = "pending"]

NewBooking(body, bookingId) ==
    [bookingId         |-> bookingId,
     customerName      |-> body.customerName,
     numberOfGuests    |-> body.numberOfGuests,
     bookingDate       |-> IF body.bookingDate = Absent THEN Absent
                           ELSE Some(NewDate(body.bookingDate[1])),
     bookingTime       |-> body.bookingTime,
     cuisinePreference |-> body.cuisinePreference,
     specialRequests   |-> IF TruthyStr(body.specialRequests) THEN body.specialRequests[1] ELSE "",
     weatherInfo       |-> IF TruthyObj(body.weatherInfo) THEN body.weatherInfo[1] ELSE DefaultWeatherInfo,
     seatingPreference |-> IF TruthyStr(body.seatingPreference) THEN body.seatingPreference[1] ELSE "indoor",
     status            |-> "confirmed"]

(***************************************************************************)
(* The schema: the validators save() runs before it writes (required, min, *)
(* max, enum, the Date cast), customerName being trimmed first.            *)
(***************************************************************************)
\* A schema whose numberOfGuests has no min/max and whose cuisinePreference has no enum.
SchemaWithoutRanges(doc) ==
    /\ doc.customerName # Absent /\ Trim(doc.customerName[1]) # <<>>
    /\ doc.numberOfGuests # Absent
    /\ doc.bookingDate # Absent /\ doc.bookingDate[1].valid
    /\ doc.bookingTime # Absent /\ doc.bookingTime[1] # ""
    /\ doc.cuisinePreference # Absent
    /\ doc.seatingPreference \in SeatingEnum
    /\ doc.status \in StatusEnum

SchemaValid(doc) ==
    /\ doc.customerName # Absent /\ Trim(doc.customerName[1]) # <<>>
    /\ doc.numberOfGuests # Absent
    /\ doc.numberOfGuests[1] >= MinGuests
    /\ doc.numberOfGuests[1] <= MaxGuests
    /\ doc.bookingDate # Absent /\ doc.bookingDate[1].valid
    /\ doc.bookingTime # Absent /\ doc.bookingTime[1] # ""
    /\ doc.cuisinePreference # Absent /\ doc.cuisinePreference[1] \in CuisineEnum
    /\ doc.seatingPreference \in SeatingEnum
    /\ doc.status \in StatusEnum

\* The record written for a valid document at time t (timestamps: true).
Persisted(doc, t) ==
    [bookingId         |-> doc.bookingId,
     customerName      |-> Trim(doc.customerName[1]),
     numberOfGuests    |-> doc.numberOfGuests[1],
     bookingDate       |-> doc.bookingDate[1].t,
     bookingTime       |-> doc.bookingTime[1],
     cuisinePreference |-> doc.cuisinePreference[1],
     specialRequests   |-> doc.specialRequests,
     weatherInfo       |-> doc.weatherInfo,
     seatingPreference |-> doc.seatingPreference,
     status            |-> doc.status,
     createdAt         |-> t,
     updatedAt         |-> t]

IdsOf(coll) == {coll[i].bookingId : i \in 1..Len(coll)}

\* A collection without the unique index.
NoUniqueIndex(coll, doc) == FALSE

\* An index that also refuses a second booking of the same name, date and time.
DuplicateReservation(coll, doc) ==
    \/ doc.bookingId \in IdsOf(coll)
    \/ \E i \in 1..Len(coll) :
          /\ coll[i].customerName = Trim(doc.customerName[1])
          /\ coll[i].bookingDate = doc.bookingDate[1].t
          /\ coll[i].bookingTime = doc.bookingTime[1]

\* The unique index on bookingId: an insert of a present key is refused.
DuplicateKey(coll, doc) == doc.bookingId \in IdsOf(coll)

\* A write that lands on the newest document in place of adding one.
InsertedOverLast(coll, rec) ==
    IF coll = <<>> THEN <<rec>> ELSE [coll EXCEPT ![Len(coll)] = rec]

\* The collection after the insert.
Inserted(coll, rec) == Append(coll, rec)

(***************************************************************************)
(* Responses.                                                              *)
(***************************************************************************)
Response(op, code, success, error, data) ==
    [op |-> op, code |-> code, success |-> success, error |-> error, data |-> data]

NoResponse == Response("none", 0, FALSE, "", <<>>)

(***************************************************************************)
(* Request bodies.  Two valid bodies that differ in every field, every     *)
(* body got from the first by dropping a set of required fields, and every *)
(* body got from one of the two by replacing one field.                    *)
(***************************************************************************)
ClearSky == [condition |-> "Clear", temperature |-> 28, description |-> "clear sky"]

AshaBody ==
    [customerName      |-> Some(<<"A">>),
     numberOfGuests    |-> Some(4),
     bookingDate       |-> Some(DateString(DayLen)),
     bookingTime       |-> Some("19:00"),
     cuisinePreference |-> Some("Italian"),
     specialRequests   |-> Absent,
     weatherInfo       |-> Absent,
     seatingPreference |-> Absent,
     status            |-> Absent]

FullBody ==
    [customerName      |-> Some(<<" ", "B">>),
     numberOfGuests    |-> Some(MaxGuests),
     bookingDate       |-> Some(DateString(DayLen + 1)),
     bookingTime       |-> Some("7:00 PM"),
     cuisinePreference |-> Some("Other"),
     specialRequests   |-> Some("Birthday"),
     weatherInfo       |-> Some(ClearSky),
     seatingPreference |-> Some("outdoor"),
     status            |-> Some("pending")]

ValidBodies == {AshaBody, FullBody}

BodyFields == DOMAIN AshaBody

Without(body, fields) == [f \in BodyFields |-> IF f \in fields THEN Absent ELSE body[f]]

Replacements ==
    [customerName      |-> {Some(<<>>), Some(<<" ">>)},
     numberOfGuests    |-> {Some(0), Some(-1), Some(MaxGuests + 1)},
     bookingDate       |-> {Some(BadDateString)},
     bookingTime       |-> {Some("")},
     cuisinePreference |-> {Some(""), Some("French")},
     specialRequests   |-> {Some("")},
     weatherInfo       |-> {},
     seatingPreference |-> {Some(""), Some("patio")},
     status            |-> {Some("cancelled")}]

Bodies ==
    ValidBodies
    \cup {Without(AshaBody, S) : S \in SUBSET RequiredFields}
    \cup UNION {{[b EXCEPT ![f] = v] : v \in Replacements[f]} : b \in ValidBodies, f \in BodyFields}

\* The bodies of the lifecycle specification: the valid ones, one the
\* controller rejects and one the schema rejects.
LifecycleBodies ==
    ValidBodies
    \cup {Without(AshaBody, {"bookingTime"}), [FullBody EXCEPT !.numberOfGuests = Some(MaxGuests + 1)]}

(***************************************************************************)
(* Time.  Each handler reads the clock when it runs; the clock never runs  *)
(* backwards, so it reads no less than any timestamp already written.      *)
(***************************************************************************)
Times == 0..MaxClock

ClockReads(t) == \A i \in 1..Len(store) : store[i].updatedAt <= t

(***************************************************************************)
(* Initial state: an empty collection.                                     *)
(***************************************************************************)
NoLookup == <<>>

NoInvocation == <<>>

NoSessions == <<>>

Init ==
    /\ store = <<>>
    /\ resp = NoResponse
    /\ supplied = <<>>
    /\ lookup = NoLookup
    /\ tool = NoInvocation
    /\ sessions = NoSessions

(***************************************************************************)
(* POST /api/bookings                                                      *)
(***************************************************************************)
CreateBooking(body, bookingId, t) ==
    IF MissingRequired(body)
    THEN /\ resp' = Response("create", 400, FALSE, MissingFieldsMessage, <<>>)
         /\ UNCHANGED <<store, supplied>>
    ELSE LET newBooking == NewBooking(body, bookingId)
             savedBooking == Persisted(newBooking, t)
         IN  IF SchemaValid(newBooking) /\ ~DuplicateKey(store, newBooking)
             THEN /\ store' = Inserted(store, savedBooking)
                  /\ supplied' = Append(supplied, body.weatherInfo)
                  /\ resp' = Response("create", 201, TRUE, "", <<savedBooking>>)
             ELSE /\ resp' = Response("create", 500, FALSE,
                                      "Failed to create booking. Please try again.", <<>>)
                  /\ UNCHANGED <<store, supplied>>

\* A request the controller turns away before it generates an identifier.
CreateRejected(bodies) ==
    \E body \in bodies : MissingRequired(body) /\ CreateBooking(body, UnknownId, 0)

\* A request whose document the schema's validators refuse in save().
CreateRefused(bodies) ==
    \E body \in bodies :
        /\ ~MissingRequired(body)
        /\ ~SchemaValid(NewBooking(body, UnknownId))
        /\ CreateBooking(body, UnknownId, 0)

\* The identifiers the generator is taken to yield: any that a record has
\* (a collision) and, of those no record has, the first.  The code only ever
\* compares identifiers for equality, so one unused identifier stands for all.
GeneratedIds(coll) ==
    IdsOf(coll) \cup {id \in BookingIds \ IdsOf(coll) : \A other \in BookingIds \ IdsOf(coll) : id <= other}

\* A request whose document reaches the insert.
CreateSaved(bodies) ==
    \E body \in bodies, bookingId \in GeneratedIds(store), t \in Times :
        /\ ~MissingRequired(body)
        /\ SchemaValid(NewBooking(body, bookingId))
        /\ ClockReads(t)
        /\ CreateBooking(body, bookingId, t)

(***************************************************************************)
(* DELETE /api/bookings/:id                                                *)
(* Booking.findOneAndUpdate({ bookingId: id }, { status: 'cancelled' },    *)
(* { new: true }): the first document the filter matches gets the update   *)
(* and, the schema having timestamps, a fresh updatedAt; no upsert.        *)
(***************************************************************************)
Matching(coll, id) == {i \in 1..Len(coll) : coll[i].bookingId = id}

First(S) == CHOOSE i \in S : \A j \in S : i <= j

\* An update that flips the status, so that a second cancel undoes the first.
ToggleUpdate(rec, t) ==
    [rec EXCEPT !.status = IF @ = "cancelled" THEN "confirmed" ELSE "cancelled", !.updatedAt = t]

\* An update that replaces the document, its other fields falling back to the defaults.
ReplaceUpdate(rec, t) ==
    [rec EXCEPT !.status = "cancelled", !.updatedAt = t, !.specialRequests = "",
                !.weatherInfo = DefaultWeatherInfo, !.seatingPreference = "indoor"]

\* The update document { status: 'cancelled' }, applied with timestamps: true.
CancelUpdate(rec, t) == [rec EXCEPT !.status = "cancelled", !.updatedAt = t]

\* A hard delete of the matching document.
FindOneAndDelete(coll, id, t) ==
    IF Matching(coll, id) = {} THEN coll
    ELSE SubSeq(coll, 1, First(Matching(coll, id)) - 1)
         \o SubSeq(coll, First(Matching(coll, id)) + 1, Len(coll))

\* The update with { upsert: true }: a filter that matches nothing inserts.
FindOneAndUpsert(coll, id, t) ==
    IF Matching(coll, id) = {}
    THEN Append(coll, [bookingId |-> id, customerName |-> <<>>, numberOfGuests |-> 0,
                       bookingDate |-> 0, bookingTime |-> "", cuisinePreference |-> "",
                       specialRequests |-> "", weatherInfo |-> DefaultWeatherInfo,
                       seatingPreference |-> "indoor", status |-> "cancelled",
                       createdAt |-> t, updatedAt |-> t])
    ELSE [coll EXCEPT ![First(Matching(coll, id))] = CancelUpdate(@, t)]

\* The update applied to every document (updateMany with an empty filter).
UpdateEvery(coll, id, t) ==
    IF Matching(coll, id) = {} THEN coll
    ELSE [i \in 1..Len(coll) |-> CancelUpdate(coll[i], t)]

FindOneAndUpdate(coll, id, t) ==
    IF Matching(coll, id) = {} THEN coll
    ELSE [coll EXCEPT ![First(Matching(coll, id))] = CancelUpdate(@, t)]

\* A filter { bookingId, status: 'confirmed' }: a cancelled booking matches nothing.
UpdatedIfConfirmed(coll, id, t) ==
    IF {i \in Matching(coll, id) : coll[i].status = "confirmed"} = {} THEN <<>>
    ELSE <<CancelUpdate(coll[First(Matching(coll, id))], t)>>

\* What findOneAndUpdate resolves to with { new: true }: the updated document, or null (<<>>).
Updated(coll, id, t) ==
    IF Matching(coll, id) = {} THEN <<>>
    ELSE <<CancelUpdate(coll[First(Matching(coll, id))], t)>>

\* A cancel that turns away a booking that is cancelled already.
CancelBookingOnce(id, t) ==
    LET booking == Updated(store, id, t)
    IN  IF booking # <<>> /\ store[First(Matching(store, id))].status = "cancelled"
        THEN /\ resp' = Response("cancel", 409, FALSE, "Booking already cancelled", <<>>)
             /\ UNCHANGED <<store, supplied>>
        ELSE /\ store' = FindOneAndUpdate(store, id, t)
             /\ resp' = IF booking = <<>>
                        THEN Response("cancel", 404, FALSE, "Booking not found", <<>>)
                        ELSE Response("cancel", 200, TRUE, "", booking)
             /\ UNCHANGED supplied

CancelBooking(id, t) ==
    LET booking == Updated(store, id, t)
    IN  /\ store' = FindOneAndUpdate(store, id, t)
        /\ resp' = IF booking = <<>>
                   THEN Response("cancel", 404, FALSE, "Booking not found", <<>>)
                   ELSE Response("cancel", 200, TRUE, "", booking)
        /\ UNCHANGED supplied

(***************************************************************************)
(* GET /api/bookings/:id                                                   *)
(***************************************************************************)
\* A lookup that skips cancelled bookings, as a hard delete would make it.
FindOneActive(coll, id) ==
    IF {i \in Matching(coll, id) : coll[i].status # "cancelled"} = {} THEN <<>>
    ELSE <<coll[First({i \in Matching(coll, id) : coll[i].status # "cancelled"})]>>

FindOne(coll, id) ==
    IF Matching(coll, id) = {} THEN <<>> ELSE <<coll[First(Matching(coll, id))]>>

GetBookingById(id) ==
    LET booking == FindOne(store, id)
    IN  /\ resp' = IF booking = <<>>
                   THEN Response("get", 404, FALSE, "Booking not found", <<>>)
                   ELSE Response("get", 200, TRUE, "", booking)
        /\ UNCHANGED <<store, supplied>>

(***************************************************************************)
(* GET /api/bookings?status=&date=                                         *)
(***************************************************************************)
\* nextDay.setDate(nextDay.getDate() + 1)
NextDay(t) == t + DayLen

\* A filter whose upper end is closed ($lte in place of $lt).
MatchesQueryClosed(rec, status, date) ==
    /\ TruthyStr(status) => rec.status = status[1]
    /\ TruthyObj(date) => /\ rec.bookingDate >= NewDate(date[1]).t
                          /\ rec.bookingDate <= NextDay(NewDate(date[1]).t)

MatchesQuery(rec, status, date) ==
    /\ TruthyStr(status) => rec.status = status[1]
    /\ TruthyObj(date) => /\ rec.bookingDate >= NewDate(date[1]).t
                          /\ rec.bookingDate < NextDay(NewDate(date[1]).t)

Found(coll, status, date) == {i \in 1..Len(coll) : MatchesQuery(coll[i], status, date)}

\* sort({ createdAt: -1 }): every order of the indexes S that puts a later
\* createdAt first; records that tie come in either order.
RECURSIVE SortedOrders(_, _)
SortedOrders(coll, S) ==
    IF S = {} THEN {<<>>}
    ELSE UNION {{<<i>> \o rest : rest \in SortedOrders(coll, S \ {i})} :
                  i \in {j \in S : \A k \in S : coll[j].createdAt >= coll[k].createdAt}}

GetAllBookings(status, date) ==
    IF TruthyObj(date) /\ ~NewDate(date[1]).valid
    THEN /\ resp' = Response("list", 500, FALSE, "Failed to fetch bookings.", <<>>)
         /\ UNCHANGED <<store, supplied>>
    ELSE \E order \in SortedOrders(store, Found(store, status, date)) :
            /\ resp' = Response("list", 200, TRUE, "", [k \in 1..Len(order) |-> store[order[k]]])
            /\ UNCHANGED <<store, supplied>>

\* The queries of the lifecycle specification: <<status, date>>.
ListQueries ==
    {<<Absent, Absent>>, <<Some("cancelled"), Some(DateString(DayLen))>>, <<Absent, Some(BadDateString)>>}

(***************************************************************************)
(* GET /api/weather?date=&location=                                        *)
(* A forecast entry is [dt, main, temp, description, humidity, wind, icon] *)
(* with dt in instants and temp and wind in tenths of their unit.          *)
(***************************************************************************)
\* A check against some other placeholder text.
OtherPlaceholderKey == "changeme"

PlaceholderKey == "your_openweather_api_key_here"

\* Math.abs(a - b)
AbsDiff(a, b) == IF a >= b THEN a - b ELSE b - a

\* The loop with diff <= minDiff: of the entries that tie, the last seen wins.
RECURSIVE ScanClosestLast(_, _, _, _)
ScanClosestLast(forecasts, k, closest, target) ==
    IF k > Len(forecasts) THEN closest
    ELSE ScanClosestLast(forecasts, k + 1,
                         IF AbsDiff(forecasts[k].dt, target) <= AbsDiff(forecasts[closest].dt, target)
                         THEN k ELSE closest,
                         target)

\* The loop over the forecasts: the running best is replaced on diff < minDiff only.
RECURSIVE ScanClosest(_, _, _, _)
ScanClosest(forecasts, k, closest, target) ==
    IF k > Len(forecasts) THEN closest
    ELSE ScanClosest(forecasts, k + 1,
                     IF AbsDiff(forecasts[k].dt, target) < AbsDiff(forecasts[closest].dt, target)
                     THEN k ELSE closest,
                     target)

\* No loop at all: the first forecast is taken.
ClosestIsFirst(forecasts, target) == forecasts[1]

Closest(forecasts, target) == forecasts[ScanClosest(forecasts, 1, 1, target)]

\* Math.round of a value given in tenths.
Round(tenths) == (tenths + 5) \div 10

WeatherOf(f) ==
    [condition   |-> f.main,
     temperature |-> Round(f.temp),
     description |-> f.description,
     humidity    |-> f.humidity,
     windSpeed   |-> f.wind,
     icon        |-> f.icon]

BadWeather == {"Rain", "Thunderstorm", "Snow", "Drizzle"}

\* The label left as the provider gave it.
AsGiven(c) == c

\* String.prototype.toLowerCase on the condition labels.
ToLowerCase(c) ==
    CASE c = "Rain" -> "rain"
      [] c = "Thunderstorm" -> "thunderstorm"
      [] c = "Snow" -> "snow"
      [] c = "Drizzle" -> "drizzle"
      [] c = "Clear" -> "clear"
      [] c = "Clouds" -> "clouds"
      [] OTHER -> c

HotAbove == 35
ColdBelow == 10
WindAbove == 10

\* The rules with the wind rule moved to the front.
getSeatingSuggestionWindFirst(weather) ==
    IF weather.windSpeed > WindAbove * 10
    THEN [recommendation |-> "indoor", reason |-> <<"High winds">>,
          voiceResponse  |-> <<"Strong winds expected. Indoor seating would be better.">>]
    ELSE IF weather.condition \in BadWeather
    THEN [recommendation |-> "indoor", reason |-> <<weather.condition, " expected">>,
          voiceResponse  |-> <<"It looks like ", ToLowerCase(weather.condition),
                               " on that day. I'd recommend indoor seating.">>]
    ELSE IF weather.temperature > HotAbove
    THEN [recommendation |-> "indoor", reason |-> <<"Very hot weather">>,
          voiceResponse  |-> <<"It's going to be ", weather.temperature,
                               "°C. Our AC indoor area would be comfortable.">>]
    ELSE IF weather.temperature < ColdBelow
    THEN [recommendation |-> "indoor", reason |-> <<"Cold weather">>,
          voiceResponse  |-> <<"It might be chilly at ", weather.temperature,
                               "°C. Indoor seating recommended.">>]
    ELSE [recommendation |-> "outdoor", reason |-> <<"Pleasant weather">>,
          voiceResponse  |-> <<"Weather looks lovely at ", weather.temperature,
                               "°C! Would you like outdoor seating?">>]

\* The rules with the limits themselves counted as too hot, too cold, too windy.
getSeatingSuggestionAtLimits(weather) ==
    IF weather.condition \in BadWeather
    THEN [recommendation |-> "indoor", reason |-> <<weather.condition, " expected">>,
          voiceResponse  |-> <<"It looks like ", ToLowerCase(weather.condition),
                               " on that day. I'd recommend indoor seating.">>]
    ELSE IF weather.temperature >= HotAbove
    THEN [recommendation |-> "indoor", reason |-> <<"Very hot weather">>,
          voiceResponse  |-> <<"It's going to be ", weather.temperature,
                               "°C. Our AC indoor area would be comfortable.">>]
    ELSE IF weather.temperature <= ColdBelow
    THEN [recommendation |-> "indoor", reason |-> <<"Cold weather">>,
          voiceResponse  |-> <<"It might be chilly at ", weather.temperature,
                               "°C. Indoor seating recommended.">>]
    ELSE IF weather.windSpeed >= WindAbove * 10
    THEN [recommendation |-> "indoor", reason |-> <<"High winds">>,
          voiceResponse  |-> <<"Strong winds expected. Indoor seating would be better.">>]
    ELSE [recommendation |-> "outdoor", reason |-> <<"Pleasant weather">>,
          voiceResponse  |-> <<"Weather looks lovely at ", weather.temperature,
                               "°C! Would you like outdoor seating?">>]

\* A template string is the sequence of its parts.
getSeatingSuggestion(weather) ==
    IF weather.condition \in BadWeather
    THEN [recommendation |-> "indoor",
          reason         |-> <<weather.condition, " expected">>,
          voiceResponse  |-> <<"It looks like ", ToLowerCase(weather.condition),
                               " on that day. I'd recommend indoor seating.">>]
    ELSE IF weather.temperature > HotAbove
    THEN [recommendation |-> "indoor",
          reason         |-> <<"Very hot weather">>,
          voiceResponse  |-> <<"It's going to be ", weather.temperature,
                               "°C. Our AC indoor area would be comfortable.">>]
    ELSE IF weather.temperature < ColdBelow
    THEN [recommendation |-> "indoor",
          reason         |-> <<"Cold weather">>,
          voiceResponse  |-> <<"It might be chilly at ", weather.temperature,
                               "°C. Indoor seating recommended.">>]
    ELSE IF weather.windSpeed > WindAbove * 10
    THEN [recommendation |-> "indoor",
          reason         |-> <<"High winds">>,
          voiceResponse  |-> <<"Strong winds expected. Indoor seating would be better.">>]
    ELSE [recommendation |-> "outdoor",
          reason         |-> <<"Pleasant weather">>,
          voiceResponse  |-> <<"Weather looks lovely at ", weather.temperature,
                               "°C! Would you like outdoor seating?">>]

\* The calendar day in a zone six hours ahead of UTC (toLocaleDateString).
LocalDay(t) == (t + 6) \div DayLen

\* requestedDate.toISOString().split('T')[0]: the calendar day of an instant.
IsoDay(t) == t \div DayLen

\* What axios.get resolves or rejects with.
ProviderOk(forecasts) == [status |-> 200, list |-> forecasts]

ProviderError(status) == [status |-> status, list |-> <<>>]

\* status 0: no response at all (network failure, timeout).
NetworkError == ProviderError(0)

GetWeatherForDate(date, location, apiKey, reply, t) ==
    LET city == IF TruthyStr(location) THEN location[1] ELSE "Mumbai"
        requestedDate == IF TruthyObj(date) THEN NewDate(date[1]) ELSE [valid |-> TRUE, t |-> t]
    IN  /\ UNCHANGED <<store, supplied>>
        /\ resp' =
              IF ~TruthyStr(apiKey) \/ apiKey[1] = PlaceholderKey
              THEN Response("weather", 500, FALSE, "OpenWeatherMap API key not configured", <<>>)
              ELSE IF reply.status = 401
              THEN Response("weather", 401, FALSE, "Invalid API key", <<>>)
              ELSE IF reply.status = 404
              THEN Response("weather", 404, FALSE, "City not found", <<>>)
              ELSE IF reply.status # 200 \/ reply.list = <<>> \/ ~requestedDate.valid
              THEN Response("weather", 500, FALSE, "Failed to fetch weather", <<>>)
              ELSE LET weather == WeatherOf(Closest(reply.list, requestedDate.t))
                   IN  Response("weather", 200, TRUE, "",
                                <<[location          |-> city,
                                   date              |-> IsoDay(requestedDate.t),
                                   weather           |-> weather,
                                   seatingSuggestion |-> getSeatingSuggestion(weather)]>>)

Entry(dt, main, temp, description, wind) ==
    [dt |-> dt, main |-> main, temp |-> temp, description |-> description,
     humidity |-> 60, wind |-> wind, icon |-> "01d"]

\* Two forecasts of the same days with different readings.
SunnyForecast ==
    <<Entry(DayLen, "Clear", 284, "clear sky", 35), Entry(DayLen + 3, "Clouds", 301, "few clouds", 40)>>

RainyForecast ==
    <<Entry(DayLen, "Rain", 187, "light rain", 120), Entry(DayLen + 3, "Clear", 365, "clear sky", 20)>>

\* The lookups of the lifecycle specification: <<date, apiKey, reply>>.
Lookups ==
    {<<Some(DateString(DayLen)), Some("key"), ProviderOk(SunnyForecast)>>,
     <<Some(DateString(DayLen)), Some("key"), ProviderOk(RainyForecast)>>,
     <<Some(DateString(DayLen)), Absent, ProviderOk(SunnyForecast)>>,
     <<Absent, Some("key"), NetworkError>>}


Cancel == \E id \in RequestIds, t \in Times : ClockReads(t) /\ CancelBooking(id, t)

GetById == \E id \in RequestIds : GetBookingById(id)

List == \E q \in ListQueries : GetAllBookings(q[1], q[2])

Weather == \E l \in Lookups : GetWeatherForDate(l[1], Absent, l[2], l[3], 0)

(***************************************************************************)
(* The booking lifecycle: every operation of the controller.               *)
(***************************************************************************)
Next ==
    \/ CreateRejected(LifecycleBodies) /\ UNCHANGED <<lookup, tool, sessions>>
    \/ CreateRefused(LifecycleBodies) /\ UNCHANGED <<lookup, tool, sessions>>
    \/ CreateSaved(LifecycleBodies) /\ UNCHANGED <<lookup, tool, sessions>>
    \/ Cancel /\ UNCHANGED <<lookup, tool, sessions>>
    \/ GetById /\ UNCHANGED <<lookup, tool, sessions>>
    \/ List /\ UNCHANGED <<lookup, tool, sessions>>
    \/ Weather /\ UNCHANGED <<lookup, tool, sessions>>

Spec == Init /\ [][Next]_vars

(***************************************************************************)
(* Creation under every request body of Bodies.                            *)
(***************************************************************************)
NextCreate ==
    \/ CreateRejected(Bodies) /\ UNCHANGED <<lookup, tool, sessions>>
    \/ CreateRefused(Bodies) /\ UNCHANGED <<lookup, tool, sessions>>
    \/ CreateSaved(Bodies) /\ UNCHANGED <<lookup, tool, sessions>>

SpecCreate == Init /\ [][NextCreate]_vars

(***************************************************************************)
(* Listing: bookings around the ends of a calendar day, cancels, and       *)
(* lists under every combination of a status filter and a date filter.     *)
(***************************************************************************)
\* Bookings for the last hour of day 0, the first and the last hour of day 1
\* and the first hour of day 2.
DatedBodies ==
    {[AshaBody EXCEPT !.bookingDate = Some(DateString(d))] :
        d \in {DayLen - 1, DayLen, 2 * DayLen - 1, 2 * DayLen}}

\* <<status, date>>: the date filter names day 1, or 01:00 of day 1, or does not parse.
DatedQueries ==
    {Absent, Some(""), Some("confirmed"), Some("cancelled")}
    \X {Absent, Some(DateString(DayLen)), Some(DateString(DayLen + 1)), Some(BadDateString)}

\* The requests of one tick of the clock.
CreateDated ==
    \E body \in DatedBodies, bookingId \in GeneratedIds(store) : CreateBooking(body, bookingId, 0)

CancelDated == \E id \in IdsOf(store) : CancelBooking(id, 0)

ListDated == \E q \in DatedQueries : GetAllBookings(q[1], q[2])

NextList ==
    \/ CreateDated /\ UNCHANGED <<lookup, tool, sessions>>
    \/ CancelDated /\ UNCHANGED <<lookup, tool, sessions>>
    \/ ListDated /\ UNCHANGED <<lookup, tool, sessions>>

SpecList == Init /\ [][NextList]_vars

(***************************************************************************)
(* The weather lookup over forecasts and targets, the provider's reply and *)
(* the query being fixed from the start.                                   *)
(***************************************************************************)
MaxForecasts == 3

\* The provider's entries come three hours apart, from the start of day 1.
ForecastStep == 3

ForecastConditions == <<"Clear", "Clouds", "Mist", "Haze", "Fog">>

\* The k-th entry of the provider's list, each with a reading of its own.
NthEntry(k) ==
    Entry(DayLen + ForecastStep * (k - 1), ForecastConditions[k], 200 + 10 * k, "forecast", 30)

\* Every non-empty list of distinct entries, in every order.
ForecastLists ==
    {fs \in UNION {[1..n -> {NthEntry(k) : k \in 1..MaxForecasts}] : n \in 1..MaxForecasts} :
        \A i, j \in 1..Len(fs) : i # j => fs[i] # fs[j]}

\* Targets before the first entry, on and between the entries, after the
\* last, and days beyond it.
Targets ==
    {DayLen - 5, 3 * DayLen}
    \cup (DayLen - 1)..(DayLen + ForecastStep * (MaxForecasts - 1) + 1)

\* Readings around every limit of the seating rules: temperatures and wind
\* speeds in tenths, as the provider gives them.
GridConditions == {"Rain", "Thunderstorm", "Snow", "Drizzle", "Clear", "Clouds"}

GridTemps == {94, 95, 220, 354, 355}

GridWinds == {35, 100, 101, 200}

GridEntries ==
    {Entry(DayLen, c, temp, "reading", w) : c \in GridConditions, temp \in GridTemps, w \in GridWinds}

WeatherLookup(date, reply) ==
    [date |-> date, location |-> Absent, apiKey |-> Some("key"), reply |-> reply, now |-> 0]

WeatherLookups ==
    {WeatherLookup(Some(DateString(target)), ProviderOk(fs)) : fs \in ForecastLists, target \in Targets}
    \cup {WeatherLookup(Some(DateString(DayLen)), ProviderOk(<<e>>)) : e \in GridEntries}

InitWeather ==
    /\ store = <<>>
    /\ resp = NoResponse
    /\ supplied = <<>>
    /\ lookup \in WeatherLookups
    /\ tool = NoInvocation
    /\ sessions = NoSessions

LookUp ==
    /\ GetWeatherForDate(lookup.date, lookup.location, lookup.apiKey, lookup.reply, lookup.now)
    /\ UNCHANGED <<lookup, tool, sessions>>

NextWeather == LookUp

SpecWeather == InitWeather /\ [][NextWeather]_vars

(***************************************************************************)
(* The tool executors of the voice agent.  An executor sends one request   *)
(* to the back end and turns what axios gives it into a string: a JSON     *)
(* text or a sentence.  A reply is the status, the kind of body ("json",   *)
(* "empty", "null", or "none" when no response came) and the fields of a   *)
(* JSON body.                                                              *)
(***************************************************************************)
Reply(status, kind, success, data, error) ==
    [status |-> status, kind |-> kind, success |-> success, data |-> data, error |-> error]

\* The reply that carries a response of the back end.
HttpReply(r) == Reply(r.code, "json", r.success, r.data, r.error)

\* No response: connection refused, reset, or timed out.
NoReply == Reply(0, "none", FALSE, <<>>, "")

\* What an executor can be given that no handler of the back end writes.
Anomalies ==
    {NoReply,
     Reply(200, "json", FALSE, <<>>, "Kitchen closed"),
     Reply(200, "json", FALSE, <<>>, ""),
     Reply(200, "json", TRUE, <<>>, ""),
     Reply(204, "empty", FALSE, <<>>, ""),
     Reply(200, "null", FALSE, <<>>, ""),
     Reply(503, "json", FALSE, <<>>, "Service Unavailable")}

\* The outcome of a function body: a string returned (a sentence, as the
\* sequence of its parts, or a JSON text, as the object stringified) or an
\* exception thrown.
Said(parts) == [thrown |-> FALSE, format |-> "text", text |-> parts, json |-> <<>>]

Json(object) == [thrown |-> FALSE, format |-> "json", text |-> <<>>, json |-> <<object>>]

Thrown == [thrown |-> TRUE, format |-> "none", text |-> <<>>, json |-> <<>>]

\* A client set to resolve every status below 500 (validateStatus).
RejectsServerErrors(reply) == reply.status < 200 \/ reply.status > 499 \/ reply.kind = "null"

\* axios rejects when no response came or the status is not 2xx; reading a
\* property of a null body throws a TypeError.
Rejects(reply) == reply.status < 200 \/ reply.status > 299 \/ reply.kind = "null"

\* !response.data.success || !response.data.data
Unsuccessful(reply) == reply.kind = "empty" \/ ~reply.success \/ reply.data = <<>>

\* try { ... } with no catch: what the body throws goes to the caller.
Uncaught(outcome, fallback) == outcome

\* try { ... } catch (error) { return fallback }
Catch(outcome, fallback) == IF outcome.thrown THEN Said(fallback) ELSE outcome

CreateToolApology ==
    <<"I apologize, but I wasn't able to complete your booking. Would you like to try again?">>

\* An executor that builds the details from the parameters it was called with.
executeCreateBookingToolFromParams(params, reply) ==
    Catch(IF Rejects(reply) THEN Thrown
          ELSE IF Unsuccessful(reply)
          THEN Said(<<"I'm sorry, there was a problem creating your booking. ",
                      IF reply.error # "" THEN reply.error ELSE "Please try again.">>)
          ELSE LET booking == reply.data[1]
               IN  Json([success   |-> TRUE,
                         bookingId |-> booking.bookingId,
                         message   |-> <<"Booking confirmed! Booking ID: ", ToString(booking.bookingId)>>,
                         details   |-> [name    |-> IF params.customerName = Absent THEN <<>>
                                                    ELSE params.customerName[1],
                                        guests  |-> IF params.numberOfGuests = Absent THEN 0
                                                    ELSE params.numberOfGuests[1],
                                        date    |-> booking.bookingDate,
                                        time    |-> IF params.bookingTime = Absent THEN ""
                                                    ELSE params.bookingTime[1],
                                        cuisine |-> IF params.cuisinePreference = Absent THEN ""
                                                    ELSE params.cuisinePreference[1],
                                        seating |-> IF params.seatingPreference = Absent THEN ""
                                                    ELSE params.seatingPreference[1]]]),
          CreateToolApology)

executeCreateBookingTool(params, reply) ==
    Catch(IF Rejects(reply) THEN Thrown
          ELSE IF Unsuccessful(reply)
          THEN Said(<<"I'm sorry, there was a problem creating your booking. ",
                      IF reply.error # "" THEN reply.error ELSE "Please try again.">>)
          ELSE LET booking == reply.data[1]
               IN  Json([success   |-> TRUE,
                         bookingId |-> booking.bookingId,
                         message   |-> <<"Booking confirmed! Booking ID: ", ToString(booking.bookingId)>>,
                         details   |-> [name    |-> booking.customerName,
                                        guests  |-> booking.numberOfGuests,
                                        date    |-> booking.bookingDate,
                                        time    |-> booking.bookingTime,
                                        cuisine |-> booking.cuisinePreference,
                                        seating |-> booking.seatingPreference]]),
          CreateToolApology)

GetToolApology ==
    <<"I'm having trouble looking up that booking. Could you please provide the booking ID again?">>

executeGetBookingTool(params, reply) ==
    Catch(IF Rejects(reply) THEN Thrown
          ELSE IF Unsuccessful(reply)
          THEN Said(<<"I couldn't find a booking with ID ", ToString(params.bookingId),
                      ". Could you please verify the booking ID?">>)
          ELSE LET booking == reply.data[1]
               IN  Json([found     |-> TRUE,
                         bookingId |-> booking.bookingId,
                         name      |-> booking.customerName,
                         guests    |-> booking.numberOfGuests,
                         date      |-> booking.bookingDate,
                         time      |-> booking.bookingTime,
                         cuisine   |-> booking.cuisinePreference,
                         seating   |-> booking.seatingPreference,
                         status    |-> booking.status]),
          GetToolApology)

WeatherToolApology ==
    <<"I'm having trouble checking the weather right now. Would you prefer indoor or outdoor seating?">>

WeatherToolUnable ==
    <<"I wasn't able to check the weather for that date. Would you prefer indoor seating to be safe?">>

\* data.weather.temperature and data.seatingSuggestion.recommendation throw
\* a TypeError on a data object without those members.
executeWeatherTool(params, reply) ==
    Catch(IF Rejects(reply) THEN Thrown
          ELSE IF Unsuccessful(reply) THEN Said(WeatherToolUnable)
          ELSE LET data == reply.data[1]
               IN  IF ~({"weather", "seatingSuggestion"} \subseteq DOMAIN data) THEN Thrown
                   ELSE Json([location       |-> data.location,
                              date           |-> data.date,
                              temperature    |-> data.weather.temperature,
                              condition      |-> data.weather.condition,
                              description    |-> data.weather.description,
                              recommendation |-> data.seatingSuggestion.recommendation,
                              voiceResponse  |-> data.seatingSuggestion.voiceResponse]),
          WeatherToolApology)

(***************************************************************************)
(* Tool invocations against the back end, within one tick of the clock.    *)
(* What the executor is given is the response the handler wrote or, when   *)
(* something between the two goes wrong, one of the anomalies.             *)
(***************************************************************************)
Invocation(name, params, reply, result) ==
    [name |-> name, params |-> params, reply |-> reply, result |-> result]

Seen(r) == {HttpReply(r)} \cup Anomalies

\* The parameters of createBooking: the request body, which has no status.
ToolParams == {Without(body, {"status"}) : body \in LifecycleBodies}

\* <<date, apiKey, provider reply>> of a getWeatherForecast invocation.
ToolLookups == {<<DateString(DayLen), l[2], l[3]>> : l \in Lookups}

\* A 200 whose data object lacks the reading.
WithoutReading == Reply(200, "json", TRUE, <<[location |-> "Mumbai", date |-> 1]>>, "")

ToolCreate ==
    \E params \in ToolParams, bookingId \in GeneratedIds(store) :
        /\ CreateBooking(params, bookingId, 0)
        /\ \E reply \in Seen(resp') :
              tool' = Invocation("createBooking", params, reply,
                                 executeCreateBookingTool(params, reply))
        /\ UNCHANGED <<lookup, sessions>>

ToolGet ==
    \E id \in RequestIds :
        /\ GetBookingById(id)
        /\ \E reply \in Seen(resp') :
              tool' = Invocation("getBooking", [bookingId |-> id], reply,
                                 executeGetBookingTool([bookingId |-> id], reply))
        /\ UNCHANGED <<lookup, sessions>>

ToolWeather ==
    \E l \in ToolLookups :
        /\ GetWeatherForDate(Some(l[1]), Absent, l[2], l[3], 0)
        /\ \E reply \in Seen(resp') \cup {WithoutReading} :
              tool' = Invocation("getWeatherForecast", [date |-> l[1], location |-> Absent], reply,
                                 executeWeatherTool([date |-> l[1], location |-> Absent], reply))
        /\ UNCHANGED <<lookup, sessions>>

\* An invocation whose request never reaches the back end.
ToolUnreached ==
    /\ \/ \E params \in ToolParams :
              tool' = Invocation("createBooking", params, NoReply,
                                 executeCreateBookingTool(params, NoReply))
       \/ \E id \in RequestIds :
              tool' = Invocation("getBooking", [bookingId |-> id], NoReply,
                                 executeGetBookingTool([bookingId |-> id], NoReply))
       \/ tool' = Invocation("getWeatherForecast", [date |-> DateString(DayLen), location |-> Absent],
                              NoReply,
                              executeWeatherTool([date |-> DateString(DayLen), location |-> Absent], NoReply))
    /\ UNCHANGED <<store, resp, supplied, lookup, sessions>>

NextTools ==
    \/ ToolCreate
    \/ ToolGet
    \/ ToolWeather
    \/ ToolUnreached
    \/ CancelDated /\ UNCHANGED <<lookup, tool, sessions>>

SpecTools == Init /\ [][NextTools]_vars

(***************************************************************************)
(* Creates side by side.  A handler runs without interruption up to its    *)
(* one await, newBooking.save(): the check of the body, the generation of  *)
(* the bookingId and the building of the document are one step, the insert *)
(* (with the response that follows it) another.  There is no lock: between *)
(* the two steps of one request any step of another may run.               *)
(***************************************************************************)
NumSessions == 2

Sessions == 1..NumSessions

Session(pc, body, bookingId, response) ==
    [pc |-> pc, body |-> body, bookingId |-> bookingId, response |-> response]

IdleSession == Session("idle", AshaBody, UnknownId, NoResponse)

\* The identifiers of the documents built and not yet inserted.
AwaitingIds == {sessions[s].bookingId : s \in {r \in Sessions : sessions[r].pc = "saving"}}

\* The generator's identifiers, up to the naming of the unused ones.
GeneratedAmong(taken) ==
    taken \cup {id \in BookingIds \ taken : \A other \in BookingIds \ taken : id <= other}

InitConcurrent ==
    /\ store = <<>>
    /\ resp = NoResponse
    /\ supplied = <<>>
    /\ lookup = NoLookup
    /\ tool = NoInvocation
    /\ sessions = [s \in Sessions |-> IdleSession]

\* createBooking up to the await: a body that fails the check is answered
\* 400 at once; for any other the document stands built under a new bookingId.
Begin(s) ==
    /\ sessions[s].pc = "idle"
    /\ \E body \in LifecycleBodies :
          IF MissingRequired(body)
          THEN /\ CreateBooking(body, UnknownId, 0)
               /\ sessions' = [sessions EXCEPT ![s] = Session("done", body, UnknownId, resp')]
          ELSE \E bookingId \in GeneratedAmong(IdsOf(store) \cup AwaitingIds) :
                  /\ sessions' = [sessions EXCEPT ![s] = Session("saving", body, bookingId, NoResponse)]
                  /\ UNCHANGED <<store, resp, supplied>>
    /\ UNCHANGED <<lookup, tool>>

\* A handler that, refused by the unique index, draws another bookingId and
\* goes back to the insert.
SaveRetrying(s) ==
    /\ sessions[s].pc = "saving"
    /\ IF sessions[s].bookingId \in IdsOf(store)
       THEN /\ sessions' = [sessions EXCEPT ![s].bookingId =
                                CHOOSE id \in BookingIds \cup {UnknownId} : id \notin IdsOf(store)]
            /\ UNCHANGED <<store, resp, supplied>>
       ELSE /\ CreateBooking(sessions[s].body, sessions[s].bookingId, 0)
            /\ sessions' = [sessions EXCEPT ![s].pc = "done", ![s].response = resp']
    /\ UNCHANGED <<lookup, tool>>

\* createBooking from the await on: save() and the response.
Save(s) ==
    /\ sessions[s].pc = "saving"
    /\ CreateBooking(sessions[s].body, sessions[s].bookingId, 0)
    /\ sessions' = [sessions EXCEPT ![s].pc = "done", ![s].response = resp']
    /\ UNCHANGED <<lookup, tool>>

NextConcurrent ==
    \/ \E s \in Sessions : Begin(s)
    \/ \E s \in Sessions : Save(s)

SpecConcurrent == InitConcurrent /\ [][NextConcurrent]_vars

(***************************************************************************)
(* Weather lookups under every outcome of the provider, asked for directly *)
(* and through the getWeatherForecast tool, with the requests each layer   *)
(* sends counted.                                                          *)
(***************************************************************************)
\* A handler that asks the provider a second time when the first call fails.
ProviderRequestsRetried(apiKey, reply) ==
    IF ~TruthyStr(apiKey) \/ apiKey[1] = PlaceholderKey THEN 0
    ELSE IF reply.status # 200 THEN 2 ELSE 1

\* The requests getWeatherForDate sends to the provider: none when the key
\* check returns, else the one axios.get, whatever comes of it.
ProviderRequests(apiKey, reply) ==
    IF ~TruthyStr(apiKey) \/ apiKey[1] = PlaceholderKey THEN 0 ELSE 1

\* The requests executeWeatherTool sends to the back end: its one axios.get.
BackendRequests(reply) == 1

ApiKeys == {Absent, Some(""), Some("your_openweather_api_key_here"), Some("key")}

ProviderReplies ==
    {ProviderOk(SunnyForecast), ProviderOk(RainyForecast), ProviderOk(<<>>),
     ProviderError(401), ProviderError(404), ProviderError(429), ProviderError(500), NetworkError}

\* No date, the first day of the forecast, a day beyond it, a text that is no date.
LookupDates ==
    {Absent, Some(DateString(DayLen)), Some(DateString(3 * DayLen)), Some(BadDateString)}

\* The clock of the handler: before the forecast, and after it.
LookupClocks == {0, 2 * DayLen + 20}

CountedLookup(date, apiKey, reply, now) ==
    [date |-> date, location |-> Absent, apiKey |-> apiKey, reply |-> reply, now |-> now,
     requests |-> 0]

CountedLookups ==
    {CountedLookup(date, apiKey, reply, now) :
        date \in LookupDates, apiKey \in ApiKeys, reply \in ProviderReplies, now \in LookupClocks}

CountedInvocation(name, params, reply, result, requests) ==
    [name |-> name, params |-> params, reply |-> reply, result |-> result, requests |-> requests]

InitOutcomes ==
    /\ store = <<>>
    /\ resp = NoResponse
    /\ supplied = <<>>
    /\ lookup \in CountedLookups
    /\ tool = NoInvocation
    /\ sessions = NoSessions

\* GET /api/weather, asked for directly.
Serve ==
    /\ GetWeatherForDate(lookup.date, lookup.location, lookup.apiKey, lookup.reply, lookup.now)
    /\ lookup' = [lookup EXCEPT !.requests = ProviderRequests(lookup.apiKey, lookup.reply)]
    /\ UNCHANGED <<tool, sessions>>

\* getWeatherForecast, whose date parameter is required; its request is
\* answered by the handler or comes to nothing (no response, a timeout).
AskTool ==
    /\ lookup.date # Absent
    /\ GetWeatherForDate(lookup.date, lookup.location, lookup.apiKey, lookup.reply, lookup.now)
    /\ lookup' = [lookup EXCEPT !.requests = ProviderRequests(lookup.apiKey, lookup.reply)]
    /\ \E reply \in {HttpReply(resp'), NoReply} :
          tool' = CountedInvocation("getWeatherForecast",
                                    [date |-> lookup.date[1], location |-> Absent], reply,
                                    executeWeatherTool([date |-> lookup.date[1], location |-> Absent], reply),
                                    BackendRequests(reply))
    /\ UNCHANGED sessions

NextOutcomes ==
    \/ Serve
    \/ AskTool

SpecOutcomes == InitOutcomes /\ [][NextOutcomes]_vars

(***************************************************************************)
(* The handlers when something inside their try block throws.  lookup      *)
(* holds the operation and the exception of the last request that threw.   *)
(***************************************************************************)
Exception(name, message, status) == [name |-> name, message |-> message, status |-> status]

\* What the driver and the models throw.
DatabaseErrors ==
    {Exception("MongoNetworkError", "connect ECONNREFUSED 127.0.0.1:27017", 0),
     Exception("MongoServerError", "E11000 duplicate key error collection: bookings", 0),
     Exception("ValidationError", "Booking validation failed", 0),
     Exception("CastError", "Cast to date failed for value \"Invalid Date\"", 0)}

\* What the provider call and the code after it throw.
WeatherErrors ==
    {Exception("AxiosError", "Request failed with status code 401", 401),
     Exception("AxiosError", "Request failed with status code 404", 404),
     Exception("AxiosError", "Request failed with status code 429", 429),
     Exception("AxiosError", "Request failed with status code 500", 500),
     Exception("AxiosError", "getaddrinfo ENOTFOUND api.openweathermap.org", 0),
     Exception("TypeError", "Cannot read properties of undefined (reading 'dt')", 0),
     Exception("RangeError", "Invalid time value", 0)}

Exceptions == DatabaseErrors \cup WeatherErrors

\* A catch block that passes the exception's message on.
CreateCatchLeaking(error) == Response("create", 500, FALSE, error.message, <<>>)

\* The catch blocks: each logs the exception and answers.
CreateCatch(error) ==
    Response("create", 500, FALSE, "Failed to create booking. Please try again.", <<>>)

ListCatch(error) == Response("list", 500, FALSE, "Failed to fetch bookings.", <<>>)

GetCatch(error) == Response("get", 500, FALSE, "Failed to fetch booking.", <<>>)

CancelCatch(error) == Response("cancel", 500, FALSE, "Failed to cancel booking.", <<>>)

WeatherCatch(error) ==
    IF error.name = "AxiosError" /\ error.status = 401
    THEN Response("weather", 401, FALSE, "Invalid API key", <<>>)
    ELSE IF error.name = "AxiosError" /\ error.status = 404
    THEN Response("weather", 404, FALSE, "City not found", <<>>)
    ELSE Response("weather", 500, FALSE, "Failed to fetch weather", <<>>)

Raised(op, error) == [op |-> op, error |-> error]

\* save() throws.
FailCreate ==
    \E body \in DatedBodies, error \in DatabaseErrors :
        /\ ~MissingRequired(body)
        /\ resp' = CreateCatch(error)
        /\ lookup' = Raised("create", error)
        /\ UNCHANGED <<store, supplied>>

\* find() throws.
FailList ==
    \E q \in DatedQueries, error \in DatabaseErrors :
        /\ resp' = ListCatch(error)
        /\ lookup' = Raised("list", error)
        /\ UNCHANGED <<store, supplied>>

\* findOne() throws.
FailGet ==
    \E id \in RequestIds, error \in DatabaseErrors :
        /\ resp' = GetCatch(error)
        /\ lookup' = Raised("get", error)
        /\ UNCHANGED <<store, supplied>>

\* findOneAndUpdate() throws.
FailCancel ==
    \E id \in RequestIds, error \in DatabaseErrors :
        /\ resp' = CancelCatch(error)
        /\ lookup' = Raised("cancel", error)
        /\ UNCHANGED <<store, supplied>>

\* The provider call, or the code after it, throws.
FailWeather ==
    \E error \in WeatherErrors :
        /\ resp' = WeatherCatch(error)
        /\ lookup' = Raised("weather", error)
        /\ UNCHANGED <<store, supplied>>

\* A list request whose date filter does not parse.
ListUnparsable == GetAllBookings(Absent, Some(BadDateString))

NextFaults ==
    \/ CreateDated /\ lookup' = NoLookup /\ UNCHANGED <<tool, sessions>>
    \/ CancelDated /\ lookup' = NoLookup /\ UNCHANGED <<tool, sessions>>
    \/ ListUnparsable /\ lookup' = NoLookup /\ UNCHANGED <<tool, sessions>>
    \/ FailCreate /\ UNCHANGED <<tool, sessions>>
    \/ FailList /\ UNCHANGED <<tool, sessions>>
    \/ FailGet /\ UNCHANGED <<tool, sessions>>
    \/ FailCancel /\ UNCHANGED <<tool, sessions>>
    \/ FailWeather /\ UNCHANGED <<tool, sessions>>

SpecFaults == Init /\ [][NextFaults]_vars

(***************************************************************************)
(* Cancel, get and list side by side on one booking.  Each handler has one *)
(* await, its database call, which the database runs as one operation on   *)
(* the document; a request is asked, and answered at any later moment.     *)
(* A request remembers the requests that were waiting when it was asked    *)
(* and whether an answer had shown the booking cancelled by then.          *)
(***************************************************************************)
\* The collection the requests meet: the booking they name and another.
Booked ==
    <<Persisted(NewBooking(AshaBody, 1), 0), Persisted(NewBooking(FullBody, 2), 0)>>

Target == Booked[1].bookingId

\* The cancels are served one hour after the bookings were made.
CancelHour == 1

Operations == {"cancel", "get", "list"}

Client(pc, op, response, after, beside) ==
    [pc |-> pc, op |-> op, response |-> response, after |-> after, beside |-> beside]

IdleClient == Client("idle", "get", NoResponse, FALSE, {})

\* The records of a response that carry the bookingId.
Shown(response, id) ==
    {response.data[k] : k \in {j \in 1..Len(response.data) : response.data[j].bookingId = id}}

Waiting == {s \in Sessions : sessions[s].pc = "waiting"}

\* An answer given so far shows the booking cancelled.
ShownCancelled ==
    \E r \in Sessions :
        /\ sessions[r].pc = "done"
        /\ \E rec \in Shown(sessions[r].response, Target) : rec.status = "cancelled"

InitReaders ==
    /\ store = Booked
    /\ resp = NoResponse
    /\ supplied = <<AshaBody.weatherInfo, FullBody.weatherInfo>>
    /\ lookup = NoLookup
    /\ tool = NoInvocation
    /\ sessions = [s \in Sessions |-> IdleClient]

\* A request arrives.
Ask(s) ==
    /\ sessions[s].pc \in {"idle", "done"}
    /\ \E op \in Operations :
          sessions' = [sessions EXCEPT ![s] = Client("waiting", op, NoResponse, ShownCancelled, Waiting)]
    /\ UNCHANGED <<store, resp, supplied, lookup, tool>>

\* The handler's database call and its response.
Answer(s) ==
    /\ sessions[s].pc = "waiting"
    /\ CASE sessions[s].op = "cancel" -> CancelBooking(Target, CancelHour)
         [] sessions[s].op = "get" -> GetBookingById(Target)
         [] sessions[s].op = "list" -> GetAllBookings(Absent, Absent)
    /\ sessions' = [sessions EXCEPT ![s].pc = "done", ![s].response = resp']
    /\ UNCHANGED <<lookup, tool>>

NextReaders ==
    \/ \E s \in Sessions : Ask(s)
    \/ \E s \in Sessions : Answer(s)

SpecReaders == InitReaders /\ [][NextReaders]_vars

(***************************************************************************)
(* Properties.                                                             *)
(***************************************************************************)
Records == 1..Len(store)

\* The step is the cancel request (id, t).
CancelStep(id, t) == ClockReads(t) /\ CancelBooking(id, t)

\* The index of the record a request for id addresses.
IndexOf(id) == First(Matching(store, id))

RecordFields == DOMAIN Persisted(NewBooking(AshaBody, UnknownId), 0)

\* C1: no two records of the collection ever share a bookingId, and an
\* insert under a bookingId that is present (that of a cancelled booking
\* too) is refused: it writes nothing and does not answer 201.
C1_UniqueBookingIds ==
    [][/\ \A i, j \in 1..Len(store') : i # j => store'[i].bookingId # store'[j].bookingId
       /\ \A body \in ValidBodies, id \in IdsOf(store), t \in Times :
             (ClockReads(t) /\ CreateBooking(body, id, t)) => (store' = store /\ resp'.code = 500)]_vars

\* C1 witness: every identifier is taken, one by a cancelled booking, and a create was refused.
C1_Witness ==
    /\ IdsOf(store) = BookingIds
    /\ \E i \in Records : store[i].status = "cancelled"
    /\ resp.op = "create" /\ resp.code = 500

AllowedTransitions ==
    {<<"confirmed", "cancelled">>, <<"pending", "confirmed">>, <<"pending", "cancelled">>}

\* C2: a record's status changes only along confirmed -> cancelled or
\* pending -> confirmed | cancelled, and a cancelled record stays cancelled.
C2_StatusTransitions ==
    [][\A i \in Records :
          /\ i <= Len(store')
          /\ store'[i].status # store[i].status
                => <<store[i].status, store'[i].status>> \in AllowedTransitions
          /\ store[i].status = "cancelled" => store'[i].status = "cancelled"]_vars

\* C2 witness: a record created earlier stands cancelled after a cancel request.
C2_Witness ==
    /\ resp.op = "cancel" /\ resp.code = 200
    /\ \E i \in Records : store[i].status = "cancelled" /\ store[i].updatedAt > store[i].createdAt

\* C3: no step removes a record: the records present stay, under their
\* identifiers, and a cancel leaves its record in place with status cancelled.
C3_NeverRemoved ==
    [][/\ Len(store') >= Len(store)
       /\ \A i \in Records : store'[i].bookingId = store[i].bookingId
       /\ \A id \in IdsOf(store), t \in Times :
             CancelStep(id, t) => (Len(store') = Len(store) /\ store'[IndexOf(id)].status = "cancelled")]_vars

\* C3 witness: a cancel answered 200 and the collection still holds every record.
C3_Witness ==
    /\ resp.op = "cancel" /\ resp.code = 200
    /\ Len(store) = NumIds
    /\ \E i \in Records : store[i].status = "cancelled"

AlreadyCancelled(id) == id \in IdsOf(store) /\ store[IndexOf(id)].status = "cancelled"

\* C4 as stated: a cancel of an already cancelled booking answers 200 with
\* the cancelled record and leaves the collection exactly as it was.
C4_SecondCancelSameState ==
    [][\A id \in RequestIds, t \in Times :
          (AlreadyCancelled(id) /\ CancelStep(id, t))
             => /\ resp'.code = 200 /\ resp'.success
                /\ resp'.data = <<store'[IndexOf(id)]>>
                /\ resp'.data[1].status = "cancelled"
                /\ store' = store]_vars

\* C4 amended: a cancel of an already cancelled booking answers 200 with
\* the cancelled record and leaves the collection as it was except for that
\* record's updatedAt, which becomes the time of the call.
C4_SecondCancelIdempotent ==
    [][\A id \in RequestIds, t \in Times :
          (AlreadyCancelled(id) /\ CancelStep(id, t))
             => /\ resp'.code = 200 /\ resp'.success
                /\ resp'.data = <<store'[IndexOf(id)]>>
                /\ resp'.data[1].status = "cancelled"
                /\ Len(store') = Len(store)
                /\ \A i \in Records : i # IndexOf(id) => store'[i] = store[i]
                /\ \A f \in RecordFields \ {"updatedAt"} :
                      store'[IndexOf(id)][f] = store[IndexOf(id)][f]
                /\ store'[IndexOf(id)].updatedAt = t]_vars

\* C4 witness: a cancelled booking was read, so the next cancel of it is a repeated one.
C4_Witness ==
    /\ resp.op = "get" /\ resp.code = 200
    /\ resp.data[1].status = "cancelled"
    /\ resp.data[1].updatedAt < MaxClock

\* C5: a cancel under a bookingId no record has answers 404 with
\* success = false, changes no record and adds none.
C5_CancelUnknownNotFound ==
    [][\A id \in RequestIds, t \in Times :
          (id \notin IdsOf(store) /\ CancelStep(id, t))
             => (resp'.code = 404 /\ ~resp'.success /\ resp'.data = <<>> /\ store' = store)]_vars

\* C5 witness: a cancel answered 404 while the collection holds records.
C5_Witness == resp.op = "cancel" /\ resp.code = 404 /\ Len(store) > 0

\* C6 as stated: a successful cancel changes the status of its record and
\* nothing else, the timestamps included.
C6_CancelChangesStatusOnly ==
    [][\A id \in IdsOf(store), t \in Times :
          CancelStep(id, t)
             => /\ Len(store') = Len(store)
                /\ \A i \in Records : i # IndexOf(id) => store'[i] = store[i]
                /\ \A f \in RecordFields \ {"status"} :
                      store'[IndexOf(id)][f] = store[IndexOf(id)][f]
                /\ store'[IndexOf(id)].status = "cancelled"]_vars

\* C6 amended: a successful cancel sets the status of its record to
\* cancelled and its updatedAt to the time of the call; every other field
\* of the record, createdAt included, and every other record are unchanged.
C6_CancelFrame ==
    [][\A id \in IdsOf(store), t \in Times :
          CancelStep(id, t)
             => /\ Len(store') = Len(store)
                /\ \A i \in Records : i # IndexOf(id) => store'[i] = store[i]
                /\ \A f \in RecordFields \ {"status", "updatedAt"} :
                      store'[IndexOf(id)][f] = store[IndexOf(id)][f]
                /\ store'[IndexOf(id)].status = "cancelled"
                /\ store'[IndexOf(id)].updatedAt = t]_vars

\* C6 witness: of two records one was cancelled, the other is still confirmed.
C6_Witness ==
    /\ resp.op = "cancel" /\ resp.code = 200
    /\ \E i, j \in Records :
          /\ store[i].status = "cancelled" /\ resp.data = <<store[i]>>
          /\ store[j].status = "confirmed"

\* The weatherInfo a create stores for the body's weatherInfo field.
Snapshot(field) == IF field = Absent THEN DefaultWeatherInfo ELSE field[1]

\* C7: the weatherInfo of every record equals the value its create was
\* given, whatever weather lookups and cancels came after.
C7_WeatherSnapshotStable ==
    /\ Len(supplied) = Len(store)
    /\ \A i \in Records : store[i].weatherInfo = Snapshot(supplied[i])

\* C7 witness: a lookup for the day of a cancelled booking returned a
\* reading other than the one the booking was created with.
C7_Witness ==
    /\ resp.op = "weather" /\ resp.code = 200
    /\ \E i \in Records :
          /\ supplied[i] # Absent
          /\ store[i].status = "cancelled"
          /\ IsoDay(store[i].bookingDate) = resp.data[1].date
          /\ resp.data[1].weather.condition # store[i].weatherInfo.condition

\* C8: a create that answers 201 has appended exactly one record, with
\* status confirmed whatever the body says, seating indoor when the body
\* gives none, under a bookingId no record had, and has returned that record.
C8_CreatePersistsConfirmed ==
    [][(resp'.op = "create" /\ resp'.code = 201) =>
          \A body \in Bodies, t \in Times :
             CreateBooking(body, resp'.data[1].bookingId, t)
                => /\ Len(store') = Len(store) + 1
                   /\ SubSeq(store', 1, Len(store)) = store
                   /\ store'[Len(store')].status = "confirmed"
                   /\ ~TruthyStr(body.seatingPreference)
                         => store'[Len(store')].seatingPreference = "indoor"
                   /\ store'[Len(store')].bookingId \notin IdsOf(store)
                   /\ resp'.data = <<store'[Len(store')]>>]_vars

\* C8 witness: a create answered 201 for a body that carries a status other
\* than confirmed, beside an earlier record created without a seating preference.
C8_Witness ==
    /\ resp.op = "create" /\ resp.code = 201
    /\ Len(store) = 2
    /\ store[1].seatingPreference = "indoor" /\ store[1].weatherInfo = DefaultWeatherInfo
    /\ store[2].customerName = <<"B">> /\ store[2].status = "confirmed"

\* The required fields a body does not carry.
Lacks(body) == {f \in RequiredFields : body[f] = Absent}

OutOfRange(body) ==
    \/ body.numberOfGuests # Absent
         /\ (body.numberOfGuests[1] < MinGuests \/ body.numberOfGuests[1] > MaxGuests)
    \/ body.cuisinePreference # Absent /\ body.cuisinePreference[1] \notin CuisineEnum

\* C10: a create whose guest count or cuisine is out of range is answered
\* with a 4xx validation error, not a 5xx, and writes nothing.
C10_OutOfRangeIs4xx ==
    [][\A body \in Bodies, id \in BookingIds, t \in Times :
          (OutOfRange(body) /\ CreateBooking(body, id, t))
             => (resp'.code >= 400 /\ resp'.code < 500 /\ store' = store)]_vars

\* C11: every record of the collection has a numberOfGuests from 1 to 20
\* and a cuisinePreference of the schema's enumeration, whatever bodies the
\* creates were given.
C11_GuestsAndCuisineInRange ==
    \A i \in Records :
        /\ store[i].numberOfGuests >= MinGuests
        /\ store[i].numberOfGuests <= MaxGuests
        /\ store[i].cuisinePreference \in CuisineEnum

\* C11 witness: a create was answered 500 while the collection holds a
\* record at the upper guest limit and has an identifier left, so the create
\* that was refused can be one whose guest count or cuisine is out of range.
C11_Witness ==
    /\ resp.op = "create" /\ resp.code = 500
    /\ Len(store) = 1
    /\ store[1].numberOfGuests = MaxGuests /\ store[1].cuisinePreference = "Other"

\* C12: an identifier a create was answered 201 for stays in the collection;
\* a get under an identifier of the collection answers 200 with the record
\* as stored, its current status included (cancelled too); a get under any
\* other identifier answers 404; and a get that follows a create directly
\* returns the very record the create returned.
C12_GetByIdFindsCreated ==
    [][/\ IdsOf(store) \subseteq IdsOf(store')
       /\ \A id \in RequestIds :
             GetBookingById(id)
                => /\ id \in IdsOf(store)
                         => /\ resp'.code = 200 /\ resp'.success
                            /\ resp'.data = <<store[IndexOf(id)]>>
                   /\ id \notin IdsOf(store)
                         => (resp'.code = 404 /\ ~resp'.success /\ resp'.data = <<>>)
       /\ (resp.op = "create" /\ resp.code = 201 /\ GetBookingById(resp.data[1].bookingId))
             => (resp'.code = 200 /\ resp'.data = resp.data)]_vars

\* C12 witness: a get returned a cancelled booking while another booking is still confirmed.
C12_Witness ==
    /\ resp.op = "get" /\ resp.code = 200
    /\ resp.data[1].status = "cancelled"
    /\ \E i, j \in Records : store[i] = resp.data[1] /\ store[j].status = "confirmed"

\* The first instant of the calendar day of instant t.
StartOfDay(t) == (t \div DayLen) * DayLen

\* The records a list response carries.
Listed(r) == {r.data[k] : k \in 1..Len(r.data)}

\* The records of the collection that have the status a filter asks for.
WithStatus(status) ==
    {i \in Records : status = Absent \/ status[1] = "" \/ store[i].status = status[1]}

LookupList == lookup.reply.list

LookupTarget == lookup.date[1].t

\* The lookup under study was answered with a reading.
Answered == resp.op = "weather" /\ resp.code = 200

\* The entries of the list whose reading the response carries.
Selected == {k \in 1..Len(LookupList) : WeatherOf(LookupList[k]) = resp.data[1].weather}

\* The entries of a list nearest to the target.
Nearest(fs, target) ==
    {k \in 1..Len(fs) : \A j \in 1..Len(fs) : AbsDiff(fs[k].dt, target) <= AbsDiff(fs[j].dt, target)}

\* C14: a lookup over a non-empty forecast list is answered 200, for a
\* target before, inside or beyond the list alike, with the reading of an
\* entry of the list whose distance to the target is the least of all.
C14_NearestForecast ==
    (resp.op = "weather" /\ LookupList # <<>>)
        => /\ resp.code = 200 /\ resp.success
           /\ Selected # {}
           /\ Selected \subseteq Nearest(LookupList, LookupTarget)

\* C14 witness: a target two days beyond the last of three entries was
\* answered with the reading of the last entry.
C14_Witness ==
    /\ Answered
    /\ Len(LookupList) = MaxForecasts
    /\ \A k \in 1..Len(LookupList) : LookupList[k].dt + DayLen < LookupTarget
    /\ resp.data[1].weather = WeatherOf(NthEntry(MaxForecasts))

\* Every reordering of a list.
Reorderings(fs) ==
    {[i \in 1..Len(fs) |-> fs[f[i]]] :
        f \in {g \in [1..Len(fs) -> 1..Len(fs)] : \A i, j \in 1..Len(fs) : i # j => g[i] # g[j]}}

\* The entries of the list come in the order of their times.
Chronological(fs) == \A i, j \in 1..Len(fs) : i < j => fs[i].dt < fs[j].dt

\* The earliest of the entries of a list nearest to the target.
Earliest(fs, target) ==
    CHOOSE k \in Nearest(fs, target) : \A j \in Nearest(fs, target) : fs[k].dt <= fs[j].dt

\* C15 as stated: the reading returned is the same for every reordering of
\* the forecast list, and of two entries equally near the target it is that
\* of the earlier one.
C15_StableUnderReordering ==
    Answered
        => /\ \A fs \in Reorderings(LookupList) :
                 WeatherOf(Closest(fs, LookupTarget)) = resp.data[1].weather
           /\ resp.data[1].weather = WeatherOf(LookupList[Earliest(LookupList, LookupTarget)])

\* C15 amended: of the entries nearest to the target the one that comes
\* first in the list is returned; so the reading is the same for every
\* reordering when one entry alone is nearest, and of two entries equally
\* near it is that of the earlier one when the list is in chronological
\* order, that of whichever comes first in the list otherwise.
C15_FirstSeenOfNearest ==
    Answered
        => /\ \E k \in Nearest(LookupList, LookupTarget) :
                 /\ \A j \in Nearest(LookupList, LookupTarget) : k <= j
                 /\ resp.data[1].weather = WeatherOf(LookupList[k])
           /\ Cardinality(Nearest(LookupList, LookupTarget)) = 1
                 => \A fs \in Reorderings(LookupList) :
                       WeatherOf(Closest(fs, LookupTarget)) = resp.data[1].weather
           /\ Chronological(LookupList)
                 => resp.data[1].weather = WeatherOf(LookupList[Earliest(LookupList, LookupTarget)])

\* C15 witness: the target lies midway between the first and the third
\* entry of a chronological list of the two, and the first was returned.
C15_Witness ==
    /\ Answered
    /\ LookupList = <<NthEntry(1), NthEntry(3)>>
    /\ LookupTarget = NthEntry(2).dt
    /\ resp.data[1].weather = WeatherOf(NthEntry(1))

\* The reading and the suggestion of the response.
Reading == resp.data[1].weather

Suggestion == resp.data[1].seatingSuggestion

Precipitation == {"Rain", "Thunderstorm", "Snow", "Drizzle"}

\* C16: the first rule that matches decides the reason: a condition of
\* Rain, Thunderstorm, Snow or Drizzle gives "<condition> expected" whatever
\* the temperature and wind; else a temperature above 35 gives "Very hot
\* weather" whatever the wind; else one below 10 gives "Cold weather"
\* whatever the wind; else a wind above 10 gives "High winds".
C16_FirstMatchingRuleWins ==
    Answered
        => /\ Reading.condition \in Precipitation
                 => Suggestion.reason = <<Reading.condition, " expected">>
           /\ (Reading.condition \notin Precipitation /\ Reading.temperature > 35)
                 => Suggestion.reason = <<"Very hot weather">>
           /\ (Reading.condition \notin Precipitation /\ Reading.temperature <= 35
                  /\ Reading.temperature < 10)
                 => Suggestion.reason = <<"Cold weather">>
           /\ (Reading.condition \notin Precipitation /\ Reading.temperature <= 35
                  /\ Reading.temperature >= 10 /\ Reading.windSpeed > 100)
                 => Suggestion.reason = <<"High winds">>

\* C16 witness: rain at 36 degrees with a wind of 20 m/s was answered "Rain expected".
C16_Witness ==
    /\ Answered
    /\ Reading.condition = "Rain" /\ Reading.temperature = 36 /\ Reading.windSpeed = 200
    /\ Suggestion.reason = <<"Rain", " expected">>

\* C17: every reading gets one suggestion, indoor or outdoor; it is outdoor
\* with reason "Pleasant weather" exactly when the condition is none of
\* Rain, Thunderstorm, Snow, Drizzle, the temperature is from 10 to 35 and
\* the wind is at most 10, the limits included; it is indoor otherwise.
C17_OutdoorIffPleasant ==
    resp.op = "weather"
        => /\ resp.code = 200
           /\ Len(resp.data) = 1
           /\ Suggestion.recommendation \in {"indoor", "outdoor"}
           /\ (Suggestion.recommendation = "outdoor" /\ Suggestion.reason = <<"Pleasant weather">>)
                 <=> /\ Reading.condition \notin Precipitation
                     /\ Reading.temperature >= 10 /\ Reading.temperature <= 35
                     /\ Reading.windSpeed <= 100
           /\ Suggestion.recommendation = "outdoor" => Suggestion.reason = <<"Pleasant weather">>

\* C17 witness: a clear day that rounds to 35 degrees with a wind of exactly
\* 10 m/s was answered outdoor.
C17_Witness ==
    /\ Answered
    /\ lookup.reply.list[1].temp = 354 /\ Reading.temperature = 35 /\ Reading.windSpeed = 100
    /\ Suggestion.recommendation = "outdoor"

\* A tool was invoked.
Invoked == tool # NoInvocation

\* The reply is one of the failure outcomes: no response, a 4xx, a 5xx, or
\* a 2xx that carries success = false or no data.
FailureOutcome(reply) == Rejects(reply) \/ Unsuccessful(reply)

\* The sentences of the executors that no input can change.
FixedSentences ==
    {CreateToolApology, GetToolApology, WeatherToolApology, WeatherToolUnable,
     <<"I'm sorry, there was a problem creating your booking. ", "Please try again.">>}

\* The sentence an executor's catch branch returns.
ApologyOf(name) ==
    CASE name = "createBooking" -> CreateToolApology
      [] name = "getBooking" -> GetToolApology
      [] name = "getWeatherForecast" -> WeatherToolApology

\* C18 as stated: every invocation of an executor ends in a string and
\* raises nothing, whatever the back end's outcome, and on every failure
\* outcome the string is a fixed fallback sentence.
C18_FixedFallbackStrings ==
    Invoked
        => /\ ~tool.result.thrown
           /\ tool.result.format \in {"text", "json"}
           /\ FailureOutcome(tool.reply)
                 => (tool.result.format = "text" /\ tool.result.text \in FixedSentences)

\* C18 amended: every invocation of an executor ends in a string and raises
\* nothing, whatever the back end's outcome.  On no response, a 4xx or a 5xx
\* (and on anything thrown while the reply is read) the string is the fixed
\* apology of that executor.  On a 2xx with success = false or no data it
\* is a fixed sentence for getWeatherForecast, a fixed opening followed by
\* the reply's error text (or "Please try again." without one) for
\* createBooking, and a sentence that quotes the requested bookingId for
\* getBooking.
C18_ExecutorsAlwaysReturnStrings ==
    Invoked
        => /\ ~tool.result.thrown
           /\ tool.result.format \in {"text", "json"}
           /\ FailureOutcome(tool.reply) => tool.result.format = "text"
           /\ (tool.reply.status < 200 \/ tool.reply.status > 299)
                 => tool.result.text = ApologyOf(tool.name)
           /\ (~Rejects(tool.reply) /\ Unsuccessful(tool.reply))
                 => /\ tool.name = "getWeatherForecast" => tool.result.text = WeatherToolUnable
                    /\ tool.name = "createBooking"
                          => /\ Len(tool.result.text) = 2
                             /\ tool.result.text[1] = "I'm sorry, there was a problem creating your booking. "
                             /\ tool.result.text[2] =
                                   IF tool.reply.error # "" THEN tool.reply.error ELSE "Please try again."
                    /\ tool.name = "getBooking"
                          => /\ Len(tool.result.text) = 3
                             /\ tool.result.text[2] = ToString(tool.params.bookingId)

\* C18 witness: getWeatherForecast was given a 200 whose data lacks the
\* reading, which throws while it is read, and returned its apology.
C18_Witness ==
    /\ Invoked
    /\ tool.name = "getWeatherForecast" /\ tool.reply = WithoutReading
    /\ tool.result = Said(WeatherToolApology)

\* A step is a createBooking invocation that returned the success payload.
CreatedByTool ==
    /\ tool' # tool
    /\ tool'.name = "createBooking"
    /\ tool'.result.format = "json"

\* The fields of a record that come from the parameters of its create.
GivenFields == RecordFields \ {"bookingId", "createdAt", "updatedAt"}

\* C19: a createBooking invocation with valid parameters and a fresh
\* bookingId is answered 201 even when the collection already holds a
\* booking with the very same parameters, and every invocation that returns
\* the success payload has appended one record, with status confirmed and a
\* bookingId no other record has; so k of them leave k records.
C19_NoDeduplication ==
    [][/\ \A params \in ValidBodies, bookingId \in BookingIds \ IdsOf(store) :
             CreateBooking(Without(params, {"status"}), bookingId, 0)
                => (resp'.code = 201 /\ Len(store') = Len(store) + 1)
       /\ CreatedByTool
             => /\ Len(store') = Len(store) + 1
                /\ SubSeq(store', 1, Len(store)) = store
                /\ store'[Len(store')].bookingId = tool'.result.json[1].bookingId
                /\ store'[Len(store')].bookingId \notin IdsOf(store)
                /\ store'[Len(store')].status = "confirmed"]_vars

\* C19 witness: after two createBooking invocations that returned the
\* success payload the collection holds two confirmed bookings that differ
\* in their bookingId alone.
C19_Witness ==
    /\ Invoked /\ tool.name = "createBooking" /\ tool.result.format = "json"
    /\ Len(store) = 2
    /\ store[1].bookingId # store[2].bookingId
    /\ \A f \in GivenFields : store[1][f] = store[2][f]
    /\ store[1].status = "confirmed" /\ store[2].status = "confirmed"

\* The requests that are through and whose input was valid.
DoneValid ==
    {s \in Sessions : /\ sessions[s].pc = "done"
                      /\ ~MissingRequired(sessions[s].body)
                      /\ SchemaValid(NewBooking(sessions[s].body, sessions[s].bookingId))}

\* The request holds a 201 and the collection holds its record, with the
\* fields the request was given.
OwnRecordStored(s) ==
    /\ sessions[s].response.code = 201
    /\ \E i \in Records :
          /\ store[i] = sessions[s].response.data[1]
          /\ store[i].bookingId = sessions[s].bookingId
          /\ \A f \in GivenFields :
                store[i][f] = Persisted(NewBooking(sessions[s].body, sessions[s].bookingId), 0)[f]
          /\ supplied[i] = sessions[s].body.weatherInfo

\* No step changes or drops a record that is in the collection.
RecordsKept == [][SubSeq(store', 1, Len(store)) = store]_vars

\* C20 as stated: under every interleaving every create with valid input
\* succeeds and has its own record stored with the fields it was given.
C20_EveryConcurrentCreateSucceeds ==
    \A s \in DoneValid : OwnRecordStored(s)

\* C20 amended: under every interleaving a create with valid input
\* succeeds and has its own record stored with the fields it was given,
\* unless the bookingId it generated is that of a record another request
\* inserted first, in which case it is answered 500 and stores nothing; and
\* no step of any create changes or drops a record of the collection.
C20_ConcurrentCreatesIndependent ==
    /\ [](\A s \in DoneValid :
             \/ OwnRecordStored(s)
             \/ /\ sessions[s].response.code = 500
                /\ \E i \in Records :
                      /\ store[i].bookingId = sessions[s].bookingId
                      /\ \E r \in Sessions \ {s} : sessions[r].response.data = <<store[i]>>)
    /\ [](Len(store) = Cardinality({s \in Sessions : sessions[s].response.code = 201}))
    /\ RecordsKept

\* C20 witness: two requests with different valid bodies were built side by
\* side, the one built second was inserted first, and both have their records.
C20_Witness ==
    /\ \A s \in Sessions : s \in DoneValid /\ OwnRecordStored(s)
    /\ store[1].bookingId > store[2].bookingId
    /\ store[1].customerName # store[2].customerName

\* The provider credential is missing or is the placeholder.
NoCredential == lookup.apiKey = Absent \/ lookup.apiKey[1] \in {"", "your_openweather_api_key_here"}

\* The lookup under study has failed: no credential, no 200 from the
\* provider, a 200 with no entries, or a date that is none.
LookupFailed ==
    \/ NoCredential
    \/ lookup.reply.status # 200
    \/ lookup.reply.list = <<>>
    \/ lookup.date # Absent /\ ~lookup.date[1].valid

\* C21: a failed lookup is answered with the outcome of its failure class
\* and with no reading: without a credential, the configuration error, and
\* no request goes to the provider; on a provider 401, the invalid-key
\* error; on a provider 404, the not-found error; on any other failure, the
\* generic one; and the four outcomes differ from one another.
C21_FailureClassOutcomes ==
    (resp.op = "weather" /\ LookupFailed)
        => /\ ~resp.success /\ resp.data = <<>>
           /\ NoCredential
                 => /\ resp.code = 500 /\ resp.error = "OpenWeatherMap API key not configured"
                    /\ lookup.requests = 0
           /\ (~NoCredential /\ lookup.reply.status = 401)
                 => (resp.code = 401 /\ resp.error = "Invalid API key")
           /\ (~NoCredential /\ lookup.reply.status = 404)
                 => (resp.code = 404 /\ resp.error = "City not found")
           /\ (~NoCredential /\ lookup.reply.status \notin {401, 404})
                 => (resp.code = 500 /\ resp.error = "Failed to fetch weather")

\* C21 witness: with the placeholder credential and a provider that would
\* have answered with a forecast, the lookup got the configuration error.
C21_Witness ==
    /\ resp.op = "weather" /\ resp.code = 500
    /\ lookup.apiKey = Some("your_openweather_api_key_here") /\ lookup.reply = ProviderOk(SunnyForecast)
    /\ lookup.requests = 0

C30_DateIsRequestedDay ==
    Answered
        => /\ lookup.date # Absent => resp.data[1].date = lookup.date[1].t \div 24
           /\ lookup.date = Absent => resp.data[1].date = lookup.now \div 24
           /\ \E k \in 1..Len(lookup.reply.list) :
                 WeatherOf(lookup.reply.list[k]) = resp.data[1].weather

\* C30 witness: a request for day 3 was answered with date 3 and the
\* reading of an entry of day 1.
C30_Witness ==
    /\ Answered
    /\ lookup.date = Some(DateString(3 * DayLen))
    /\ resp.data[1].date = 3
    /\ \A k \in 1..Len(lookup.reply.list) : lookup.reply.list[k].dt \div 24 = 1

\* The rule a reading falls under, in the order of the rules.
BranchOf(w) ==
    IF w.condition \in Precipitation THEN "precipitation"
    ELSE IF w.temperature > 35 THEN "hot"
    ELSE IF w.temperature < 10 THEN "cold"
    ELSE IF w.windSpeed > 100 THEN "windy"
    ELSE "pleasant"

\* The condition labels in lower case.
LowerCased ==
    [Rain |-> "rain", Thunderstorm |-> "thunderstorm", Snow |-> "snow", Drizzle |-> "drizzle"]

\* The part of the sentence before the embedded value.
Opening(suggestion) == suggestion.voiceResponse[1]

\* C23 as stated: the sentence of the precipitation branch embeds the
\* condition label exactly as the reading gives it.
C23_LabelAsGiven ==
    (Answered /\ BranchOf(Reading) = "precipitation")
        => Suggestion.voiceResponse[2] = Reading.condition

\* C23: the sentences of two readings under different rules differ; the
\* precipitation sentence embeds the reading's condition label in lower
\* case; the hot, cold and pleasant sentences embed the reading's
\* temperature exactly; the windy sentence is fixed and embeds no value.
C23_DistinctSentencesEmbedValues ==
    Answered
        => /\ \A e \in GridEntries :
                 BranchOf(WeatherOf(e)) # BranchOf(Reading)
                     => Opening(getSeatingSuggestion(WeatherOf(e))) # Opening(Suggestion)
           /\ BranchOf(Reading) = "precipitation"
                 => /\ Len(Suggestion.voiceResponse) = 3
                    /\ Suggestion.voiceResponse[2] = LowerCased[Reading.condition]
           /\ BranchOf(Reading) \in {"hot", "cold", "pleasant"}
                 => /\ Len(Suggestion.voiceResponse) = 3
                    /\ Suggestion.voiceResponse[2] = Reading.temperature
           /\ BranchOf(Reading) = "windy"
                 => Suggestion.voiceResponse
                      = <<"Strong winds expected. Indoor seating would be better.">>

\* C23 witness: a reading of Rain answered with a sentence that says rain.
C23_Witness ==
    /\ Answered
    /\ Reading.condition = "Rain"
    /\ Opening(Suggestion) = "It looks like "
    /\ Suggestion.voiceResponse[2] = "rain"

\* The answer of an operation's catch block to an exception.
FailureOf(op, error) ==
    CASE op = "create" -> CreateCatch(error)
      [] op = "list" -> ListCatch(error)
      [] op = "get" -> GetCatch(error)
      [] op = "cancel" -> CancelCatch(error)
      [] op = "weather" -> WeatherCatch(error)

\* C24: a 5xx response of create, list, get, cancel or weather to a request
\* that threw is the response the same operation gives whichever exception
\* is thrown in its place, and the booking operations answer every
\* exception with a 5xx; the response carries no data.
C24_FailureCauseHidden ==
    (resp.code >= 500 /\ resp.op # "none")
        => /\ resp.data = <<>>
           /\ lookup # NoLookup
                 => /\ lookup.op = resp.op
                    /\ \A other \in Exceptions :
                          FailureOf(resp.op, other).code >= 500
                              => FailureOf(resp.op, other) = resp
                    /\ resp.op # "weather"
                          => \A other \in Exceptions : FailureOf(resp.op, other).code = 500
           /\ (lookup = NoLookup /\ resp.op \in {"create", "list"})
                 => \A other \in Exceptions : FailureOf(resp.op, other) = resp

\* C24 witness: with a booking stored, a cancel request whose database call
\* lost its connection was answered 500.
C24_Witness ==
    /\ store # <<>>
    /\ resp.op = "cancel" /\ resp.code = 500
    /\ lookup # NoLookup
    /\ lookup.error.name = "MongoNetworkError"

\* C25: an insert under a bookingId that a record already has is answered
\* with the 500 of the create handler, adds no record, leaves the records
\* as they are, and ends the request under the bookingId it had: no other
\* identifier is drawn and no second insert follows.
C25_CollisionFailsWithoutRetry ==
    [][\A s \in Sessions :
          (Save(s) /\ sessions[s].bookingId \in IdsOf(store))
              => /\ resp' = Response("create", 500, FALSE,
                                     "Failed to create booking. Please try again.", <<>>)
                 /\ store' = store
                 /\ supplied' = supplied
                 /\ sessions'[s] = [sessions[s] EXCEPT !.pc = "done", !.response = resp']
                 /\ \A r \in Sessions \ {s} : sessions'[r] = sessions[r]]_vars

\* C25 witness: a request with valid input ended with 500 and the one record
\* under its bookingId is the record of the other request.
C25_Witness ==
    \E s \in DoneValid :
        /\ sessions[s].response.code = 500
        /\ Len(store) = 1
        /\ store[1].bookingId = sessions[s].bookingId
        /\ \E r \in Sessions \ {s} : sessions[r].response.data = <<store[1]>>

\* C28: no record is ever pending: the status of every record of the
\* collection is confirmed or cancelled, whatever status the bodies named.
C28_NeverPending ==
    \A i \in Records : store[i].status \in {"confirmed", "cancelled"}

\* C28 witness: a cancelled record beside a confirmed one that was created
\* from the body that names the status pending.
C28_Witness ==
    /\ Len(store) = 2
    /\ store[1].status = "cancelled"
    /\ store[2].status = "confirmed" /\ store[2].customerName = <<"B">>
    /\ FullBody.status = Some("pending")

\* The records of the collection after the step that carry the bookingId of
\* the payload the tool returned.
Returned == {i \in 1..Len(store') : store'[i].bookingId = tool'.result.json[1].bookingId}

\* C27: a createBooking invocation adds no record or one and changes none;
\* when it returns the success payload, one record alone carries the
\* bookingId of the payload, it is the record the invocation added, its
\* status is confirmed, and the details of the payload are its name, guests,
\* time, cuisine and seating.
C27_ToolPersistsOneRecord ==
    [][/\ (tool' # tool /\ tool'.name = "createBooking")
             => /\ Len(store') \in {Len(store), Len(store) + 1}
                /\ SubSeq(store', 1, Len(store)) = store
       /\ CreatedByTool
             => /\ Returned = {Len(store')}
                /\ Len(store') = Len(store) + 1
                /\ \A i \in Returned :
                      LET details == tool'.result.json[1].details
                      IN  /\ store'[i].status = "confirmed"
                          /\ details.name = store'[i].customerName
                          /\ details.guests = store'[i].numberOfGuests
                          /\ details.time = store'[i].bookingTime
                          /\ details.cuisine = store'[i].cuisinePreference
                          /\ details.seating = store'[i].seatingPreference]_vars

\* C27 witness: an invocation whose customerName has a leading blank
\* returned the success payload, with the name of the record in its details.
C27_Witness ==
    /\ Invoked /\ tool.name = "createBooking" /\ tool.result.format = "json"
    /\ tool.params.customerName = Some(<<" ", "B">>)
    /\ tool.result.json[1].details.name = <<"B">>
    /\ store[Len(store)].bookingId = tool.result.json[1].bookingId
    /\ store[Len(store)].customerName = <<"B">>

\* The last invocation was of getBooking.
Looked == Invoked /\ tool.name = "getBooking"

\* The sentence of the branch for a reply without a booking.
CouldNotFind ==
    /\ tool.result.format = "text"
    /\ tool.result.text[1] = "I couldn't find a booking with ID "

\* C29: a getBooking invocation answered 404 by the back end returns the
\* sentence of the catch branch, as one that got no response does; the
\* "couldn't find a booking with ID" sentence is returned only for a 2xx
\* reply with success false or without data; and a 200 reply that carries a
\* cancelled booking returns the found payload with status cancelled.
C29_NotFoundTakesCatchPath ==
    Looked
        => /\ (tool.reply.status = 404 \/ tool.reply = NoReply)
                 => (tool.result.format = "text" /\ tool.result.text = GetToolApology)
           /\ (resp.op = "get" /\ tool.reply = HttpReply(resp)
                   /\ tool.params.bookingId \notin IdsOf(store))
                 => (tool.reply.status = 404 /\ tool.result.text = GetToolApology)
           /\ CouldNotFind
                 => /\ tool.reply.status \in 200..299
                    /\ ~tool.reply.success \/ tool.reply.data = <<>>
           /\ (tool.reply.status = 200 /\ tool.reply.success /\ tool.reply.data # <<>>
                   /\ tool.reply.kind = "json")
                 => /\ tool.result.format = "json"
                    /\ tool.result.json[1].found
                    /\ tool.result.json[1].bookingId = tool.reply.data[1].bookingId
                    /\ tool.result.json[1].status = tool.reply.data[1].status

\* C29 witness: with a cancelled booking in the collection, an invocation
\* for an identifier no booking has was answered 404 and returned the
\* sentence of the catch branch.
C29_Witness ==
    /\ Looked
    /\ store # <<>> /\ store[1].status = "cancelled"
    /\ tool.params.bookingId \notin IdsOf(store)
    /\ resp.op = "get" /\ resp.code = 404 /\ tool.reply = HttpReply(resp)
    /\ tool.result.text = GetToolApology

\* The requests that have their answer.
Answered26 == {s \in Sessions : sessions[s].pc = "done"}

\* C26: under every interleaving of cancel, get and list requests for one
\* booking, every answer is a 200 that shows the booking once, either as
\* it was made (confirmed) or as a cancel leaves it (cancelled, with the
\* cancel's updatedAt), never in between; a request asked after an answer
\* had shown the booking cancelled is not shown it confirmed; every
\* cancel, whatever runs beside it, is answered with the cancelled
\* booking; and the collection holds the booking once, the other booking
\* is untouched, and once a cancel is answered the booking is cancelled.
C26_ReadsSeeWholeRecords ==
    /\ \A s \in Answered26 :
          /\ sessions[s].response.code = 200
          /\ Cardinality(Shown(sessions[s].response, Target)) = 1
          /\ Shown(sessions[s].response, Target)
                \subseteq {Booked[1], CancelUpdate(Booked[1], CancelHour)}
          /\ sessions[s].after
                => \A rec \in Shown(sessions[s].response, Target) : rec.status = "cancelled"
          /\ sessions[s].op = "cancel"
                => /\ sessions[s].response.data = <<CancelUpdate(Booked[1], CancelHour)>>
                   /\ store[1].status = "cancelled"
    /\ Len(store) = 2
    /\ store[1] \in {Booked[1], CancelUpdate(Booked[1], CancelHour)}
    /\ store[2] = Booked[2]

\* C26 witness: two cancels of the booking that waited side by side have
\* both been answered 200 and the collection holds the booking once, cancelled.
C26_Witness ==
    /\ \A s \in Sessions : s \in Answered26 /\ sessions[s].op = "cancel"
    /\ \A s \in Sessions : sessions[s].response.code = 200
    /\ \E s \in Sessions : sessions[s].beside # {}
    /\ Cardinality({i \in Records : store[i].status = "cancelled"}) = 1

====
